---- MODULE Spec2Model ----
(***************************************************************************)
(* Priority dispatch pipeline of serverless-notification.                  *)
(*                                                                         *)
(* The dispatch Lambda (handler, withinRateLimit, loadPreferences,         *)
(* updateRateLimitState, sendThroughProvider, computeBackoffDelayMs,       *)
(* applyBackoffIfPossible) as a state machine.  Each worker is one Lambda  *)
(* invocation; a step of a worker is the code between two awaits.  The     *)
(* DynamoDB rate-limit table, the wall clock, the delivery provider and    *)
(* the SQS transport (Lambda event-source mapping) are the environment.    *)
(***************************************************************************)
EXTENDS Integers, Sequences, FiniteSets, TLC

(***************************************************************************)
(* Program constants.                                                      *)
(***************************************************************************)
RATE_LIMIT_WINDOW_MS == 60000
RATE_LIMIT_MAX_PER_WINDOW == 30
BASE_BACKOFF_MS == 200
MAX_BACKOFF_MS == 30000

(***************************************************************************)
(* Bounds of the model.                                                    *)
(***************************************************************************)
\* The clock advances in steps of TickMs, up to MaxClock.
TickMs == 30000
MaxClock == 120000
\* Attempts the transport makes for one key beyond the window capacity.
MaxOver == 2
\* The transport's maxReceiveCount (redrive policy): receives before dead-lettering.
MaxReceiveCount == 3
\* Slots of the window still free when the concurrent dispatch (RaceSpec) starts.
RaceFree == 2

Workers == {"w1", "w2"}

\* preferences.rateLimitKey: "" stands for a missing key (both are falsy).
NoKey == ""
Keys == {"user:42", "user:7"}

\* A value that may be missing (sendAfter, ApproximateReceiveCount).
Absent == [kind |-> "absent", v |-> 0]
Invalid == [kind |-> "invalid", v |-> 0]
Val(n) == [kind |-> "value", v |-> n]

\* The result of Date.parse: a number of milliseconds, or NaN.
NaN == [nan |-> TRUE, ms |-> 0]
Ms(n) == [nan |-> FALSE, ms |-> n]

\* Date.parse(message.sendAfter): NaN for a string that is no date.
DateParse(s) == IF s.kind = "value" THEN Ms(s.v) ELSE NaN

\* a >= b where the code has a > b.
GreaterOrEqual(a, b) == ~a.nan /\ a.ms >= b

\* a > b for numbers a that may be NaN: every comparison with NaN is false.
GreaterThan(a, b) == ~a.nan /\ a.ms > b

\* Line 137: message.sendAfter && Date.parse(message.sendAfter) > Date.now()
MustWait(sendAfter, t) ==
  /\ sendAfter.kind # "absent"
  /\ GreaterThan(DateParse(sendAfter), t)

\* The DynamoDB item of a rateLimitKey; NoItem: GetItem returned no Item.
NoItem == [present |-> FALSE, windowStart |-> 0, count |-> 0]
Item(ws, c) == [present |-> TRUE, windowStart |-> ws, count |-> c]

Min(a, b) == IF a < b THEN a ELSE b

\* The delay without the cap of line 103.
computeBackoffDelayMsUncapped(receiveCount) ==
  BASE_BACKOFF_MS * 2 ^ Min(receiveCount, 10)

\* computeBackoffDelayMs, lines 100-104.
computeBackoffDelayMs(receiveCount) ==
  LET exp == 2 ^ Min(receiveCount, 10)
      delay == BASE_BACKOFF_MS * exp
  IN Min(delay, MAX_BACKOFF_MS)

\* Line 120: VisibilityTimeout: Math.floor(delayMs / 1000), in seconds.
VisibilityTimeoutOf(delayMs) == delayMs \div 1000

\* Line 108: Number(record.attributes?.ApproximateReceiveCount || "1")
ReceiveCountOf(record) ==
  IF record.receiveCount.kind = "value" THEN record.receiveCount.v ELSE 1

\* A window that expires one millisecond early (>= for >).
FreshWindowEarly(st, t) ==
  IF ~st.present \/ t - st.windowStart >= RATE_LIMIT_WINDOW_MS
  THEN Item(t, 0)
  ELSE st

\* Lines 67-69: a missing or expired state starts a fresh window.
FreshWindow(st, t) ==
  IF ~st.present \/ t - st.windowStart > RATE_LIMIT_WINDOW_MS
  THEN Item(t, 0)
  ELSE st

\* A limit that is reached one admission late (> for >=).
LimitReachedLate(st) == st.count > RATE_LIMIT_MAX_PER_WINDOW

\* Line 71: the window is full.
LimitReached(st) == st.count >= RATE_LIMIT_MAX_PER_WINDOW

\* Line 80: state.count += 1
\* The state without the count += 1 of line 80.
Unincremented(st) == st

\* Line 80: state.count += 1.
Increment(st) == [st EXCEPT !.count = st.count + 1]

VARIABLES
  preferencesTableName, \* PREFERENCES_TABLE_NAME is set
  dispatchQueueUrl,     \* PRIORITY_QUEUE_URL is set
  clock,                \* Date.now()
  table,                \* the rate-limit items of the preferences table, by key
  pc,                   \* where each worker's handler invocation stands
  batch,                \* event.Records of the invocation
  idx,                  \* the record the for loop is at
  now,                  \* withinRateLimit's now
  state,                \* withinRateLimit's state
  err,                  \* the error caught at line 153
  att,                  \* what the current attempt (record) has done so far
  classes,              \* how each finished attempt of the invocation ended
  result,               \* what the invocation gave its caller
  win,                  \* per key: what happened in the stored window (kept by the model)
  retryCount,           \* computeBackoffDelayMs's receiveCount
  retryDelay,           \* what computeBackoffDelayMs returned for it
  retryPrev,            \* what it returned for the count before
  genAI,                \* GEMINI_API_KEY is set: the Gemini client exists
  rpc,                  \* where the ranking handler's invocation stands
  events,               \* the notification events of its records
  ri,                   \* the record its for loop is at
  attempt,              \* scoreWithLLM's attempt
  replies,              \* what the service did at each attempt of this call
  waits,                \* the delays this call of scoreWithLLM has waited
  ranking,              \* what scoreWithLLM returned for the record
  priorityQueue         \* the ranked messages sent to the priority queue

dispatchVars == <<preferencesTableName, dispatchQueueUrl, clock, table, pc,
                  batch, idx, now, state, err, att, classes, result, win>>

backoffVars == <<retryCount, retryDelay, retryPrev>>

rankVars == <<genAI, rpc, events, ri, attempt, replies, waits, ranking,
              priorityQueue>>

vars == <<dispatchVars, backoffVars, rankVars>>

\* No delay computed yet, no result of scoreWithLLM yet.
NoDelay == -1
NoRanking == [kind |-> "none"]

\* The Backoff Scheduler and the ranking service before anything ran.
BackoffIdle == retryCount = 0 /\ retryDelay = NoDelay /\ retryPrev = NoDelay
RankIdle(clients) ==
  /\ genAI \in clients
  /\ rpc = "idle"
  /\ events = <<>>
  /\ ri = 0
  /\ attempt = 0
  /\ replies = <<>>
  /\ waits = <<>>
  /\ ranking = NoRanking
  /\ priorityQueue = <<>>

(***************************************************************************)
(* Records, attempts and results.                                          *)
(***************************************************************************)
\* One entry of event.Records: the RankedMessage of its body (key, sendAfter),
\* the transport's receiptHandle and ApproximateReceiveCount, and whether
\* the provider was ever called for this message (kept by the model only).
Rec(k, sa, rc, rh) ==
  [key |-> k, sendAfter |-> sa, receiveCount |-> rc, receiptHandle |-> rh,
   handed |-> FALSE]

\* What an attempt has done: deferred by sendAfter, the guard's decision,
\* provider calls, calls of applyBackoffIfPossible, the ChangeMessageVisibility
\* request it sent (seconds), the delay computed for it (ms), how it ended.
NoAttempt ==
  [deferred |-> FALSE, allowed |-> "pending", providerCalls |-> 0,
   providerError |-> "none", backoffCalls |-> 0, requests |-> 0,
   receiveCount |-> 0, delayMs |-> 0, visibilityTimeout |-> 0,
   class |-> "pending"]

NoResult == [kind |-> "none", dispatched |-> 0, error |-> "none"]
Returned(n) == [kind |-> "return", dispatched |-> n, error |-> "none"]
Raised(e) == [kind |-> "throw", dispatched |-> 0, error |-> e]

NoWindow == [admits |-> 0, sends |-> 0, denials |-> 0, limited |-> 0]

Current(w) == batch[w][idx[w]]

TypeOK ==
  /\ preferencesTableName \in BOOLEAN
  /\ dispatchQueueUrl \in BOOLEAN
  /\ clock \in 0..(MaxClock + TickMs)
  /\ \A k \in Keys : table[k].count \in 0..RATE_LIMIT_MAX_PER_WINDOW + 2
  /\ \A w \in Workers :
       pc[w] \in {"idle", "sendAfter", "withinRateLimit", "load", "update",
                  "send", "limited", "failed", "returned", "threw",
                  "deleted", "dead"}

\* The state when the Lambda container starts: the environment variables are
\* read (lines 7-8), the table holds no rate-limit item, no invocation runs.
DispatchIdle(tableNames, queueUrls) ==
  /\ preferencesTableName \in tableNames
  /\ dispatchQueueUrl \in queueUrls
  /\ clock = 0
  /\ table = [k \in Keys |-> NoItem]
  /\ pc = [w \in Workers |-> "idle"]
  /\ batch = [w \in Workers |-> <<>>]
  /\ idx = [w \in Workers |-> 0]
  /\ now = [w \in Workers |-> 0]
  /\ state = [w \in Workers |-> NoItem]
  /\ err = [w \in Workers |-> "none"]
  /\ att = [w \in Workers |-> NoAttempt]
  /\ classes = [w \in Workers |-> <<>>]
  /\ result = [w \in Workers |-> NoResult]
  /\ win = [k \in Keys |-> NoWindow]

Start(tableNames, queueUrls) ==
  /\ DispatchIdle(tableNames, queueUrls)
  /\ BackoffIdle
  /\ RankIdle({TRUE})

(***************************************************************************)
(* The environment: time.                                                  *)
(***************************************************************************)
Tick(maxClock) ==
  /\ clock + TickMs <= maxClock
  /\ clock' = clock + TickMs
  /\ UNCHANGED <<preferencesTableName, dispatchQueueUrl, table, pc, batch, idx,
                 now, state, err, att, classes, result, win>>
  /\ UNCHANGED <<backoffVars, rankVars>>

(***************************************************************************)
(* handler, lines 130-165.                                                 *)
(***************************************************************************)
\* The invocation stands at worker w; everything of the other workers and of
\* the environment that a step does not name stays as it is.
Set(f, w, v) == [f EXCEPT ![w] = v]

\* Lines 133, 142, 148, 162-164: the attempt on the current record is over
\* and ended as a; the loop goes to the next record, or the handler returns
\* { dispatched: records.length }.  withinRateLimit's locals are gone.
Continue(w, a) ==
  /\ classes' = Set(classes, w, Append(classes[w], a))
  /\ now' = Set(now, w, 0)
  /\ state' = Set(state, w, NoItem)
  /\ IF idx[w] < Len(batch[w])
     THEN /\ idx' = Set(idx, w, idx[w] + 1)
          /\ pc' = Set(pc, w, "sendAfter")
          /\ att' = Set(att, w, NoAttempt)
          /\ result' = result
     ELSE /\ idx' = idx
          /\ pc' = Set(pc, w, "returned")
          /\ att' = Set(att, w, a)
          /\ result' = Set(result, w, Returned(Len(batch[w])))

\* An error e leaves the handler: the invocation ends by raising e.
Throw(w, a, e) ==
  /\ classes' = Set(classes, w, Append(classes[w], a))
  /\ now' = Set(now, w, 0)
  /\ state' = Set(state, w, NoItem)
  /\ att' = Set(att, w, a)
  /\ pc' = Set(pc, w, "threw")
  /\ result' = Set(result, w, Raised(e))
  /\ idx' = idx

\* Line 130-131: the transport (or a direct caller) invokes the handler with
\* the records recs.
Invoke(w, recs) ==
  /\ pc[w] \in {"idle", "deleted", "dead"}
  /\ \A i \in 1..Len(recs) :
       recs[i].key # NoKey =>
         win[recs[i].key].admits + win[recs[i].key].denials
           < RATE_LIMIT_MAX_PER_WINDOW + MaxOver
  /\ pc' = Set(pc, w, "sendAfter")
  /\ batch' = Set(batch, w, recs)
  /\ idx' = Set(idx, w, 1)
  /\ att' = Set(att, w, NoAttempt)
  /\ classes' = Set(classes, w, <<>>)
  /\ result' = Set(result, w, NoResult)
  /\ err' = Set(err, w, "none")
  /\ now' = Set(now, w, 0)
  /\ state' = Set(state, w, NoItem)
  /\ UNCHANGED <<preferencesTableName, dispatchQueueUrl, clock, table, win>>
  /\ UNCHANGED <<backoffVars, rankVars>>

\* Lines 137-143: skip the record until sendAfter.
CheckSendAfter(w) ==
  /\ pc[w] = "sendAfter"
  /\ IF MustWait(Current(w).sendAfter, clock)
     THEN Continue(w, [att[w] EXCEPT !.deferred = TRUE, !.class = "deferred"])
     ELSE /\ pc' = Set(pc, w, "withinRateLimit")
          /\ UNCHANGED <<idx, att, classes, result, now, state>>
  /\ UNCHANGED <<preferencesTableName, dispatchQueueUrl, clock, table, batch,
                 err, win>>
  /\ UNCHANGED <<backoffVars, rankVars>>

\* withinRateLimit without the test of line 60: every message goes on to
\* the read of line 65.
EnterRateLimitUnkeyed(w) ==
  /\ pc[w] = "withinRateLimit"
  /\ now' = Set(now, w, clock)
  /\ pc' = Set(pc, w, "load")
  /\ UNCHANGED <<preferencesTableName, dispatchQueueUrl, clock, table, batch,
                 idx, state, err, att, classes, result, win>>
  /\ UNCHANGED <<backoffVars, rankVars>>

(***************************************************************************)
(* withinRateLimit, lines 58-89.                                           *)
(***************************************************************************)
\* Lines 59-64: no key admits at once; otherwise now = Date.now().
EnterRateLimit(w) ==
  /\ pc[w] = "withinRateLimit"
  /\ IF Current(w).key = NoKey
     THEN /\ att' = Set(att, w, [att[w] EXCEPT !.allowed = "admit"])
          /\ pc' = Set(pc, w, "send")
          /\ now' = now
     ELSE /\ now' = Set(now, w, clock)
          /\ pc' = Set(pc, w, "load")
          /\ att' = att
  /\ UNCHANGED <<preferencesTableName, dispatchQueueUrl, clock, table, batch,
                 idx, state, err, classes, result, win>>
  /\ UNCHANGED <<backoffVars, rankVars>>

\* loadPreferences, lines 23-39: the item of the key, read consistently.
loadPreferences(rateLimitKey) ==
  IF ~preferencesTableName \/ rateLimitKey = NoKey
  THEN NoItem
  ELSE table[rateLimitKey]

\* Line 65: state = await loadPreferences(rateLimitKey); the GetItem call may
\* be rejected (storeOutcomes), and the rejection leaves the handler.
LoadPreferences(w, storeOutcomes) ==
  /\ pc[w] = "load"
  /\ \E o \in (IF preferencesTableName THEN storeOutcomes ELSE {"ok"}) :
       IF o = "ok"
       THEN /\ state' = Set(state, w, loadPreferences(Current(w).key))
            /\ pc' = Set(pc, w, "update")
            /\ UNCHANGED <<idx, att, classes, result, now>>
       ELSE Throw(w, [att[w] EXCEPT !.class = "error"], "store")
  /\ UNCHANGED <<preferencesTableName, dispatchQueueUrl, clock, table, batch,
                 err, win>>
  /\ UNCHANGED <<backoffVars, rankVars>>

\* An update that adds one to the stored count of the same window (ADD)
\* where the code sets the count it computed from its own read.
updateRateLimitStateAdd(rateLimitKey, st) ==
  IF ~preferencesTableName
  THEN table
  ELSE [table EXCEPT ![rateLimitKey] =
          IF @.present /\ @.windowStart = st.windowStart
          THEN Item(@.windowStart, @.count + 1)
          ELSE Item(st.windowStart, st.count)]

\* updateRateLimitState without the test of line 42.
updateRateLimitStateUnguarded(rateLimitKey, st) ==
  [table EXCEPT ![rateLimitKey] = Item(st.windowStart, st.count)]

\* updateRateLimitState, lines 41-56: SET windowStart, count of the key's item.
updateRateLimitState(rateLimitKey, st) ==
  IF ~preferencesTableName
  THEN table
  ELSE [table EXCEPT ![rateLimitKey] = Item(st.windowStart, st.count)]

\* The model's count of what happened in the stored window of key k
\* (admits: calls admitted, sends: provider calls, denials: calls denied,
\* limited: attempts that ended denied with a backoff requested and no
\* provider call): a write that starts another window starts the count again.
Admitted(k, st) ==
  IF preferencesTableName
     /\ (~table[k].present \/ table[k].windowStart # st.windowStart)
  THEN [win EXCEPT ![k] = [NoWindow EXCEPT !.admits = 1]]
  ELSE [win EXCEPT ![k].admits = @ + 1]

\* Lines 67-88: fresh window, deny at capacity, else increment, persist, admit.
UpdateRateLimitState(w, storeOutcomes) ==
  /\ pc[w] = "update"
  /\ LET k == Current(w).key
         st == FreshWindow(state[w], now[w])
     IN IF LimitReached(st)
        THEN /\ state' = Set(state, w, st)
             /\ att' = Set(att, w, [att[w] EXCEPT !.allowed = "deny"])
             /\ pc' = Set(pc, w, "limited")
             /\ win' = [win EXCEPT ![k].denials = @ + 1]
             /\ UNCHANGED <<table, idx, classes, result, now>>
        ELSE \E o \in (IF preferencesTableName THEN storeOutcomes ELSE {"ok"}) :
               IF o = "ok"
               THEN /\ state' = Set(state, w, Increment(st))
                    /\ table' = updateRateLimitState(k, Increment(st))
                    /\ win' = Admitted(k, st)
                    /\ att' = Set(att, w, [att[w] EXCEPT !.allowed = "admit"])
                    /\ pc' = Set(pc, w, "send")
                    /\ UNCHANGED <<idx, classes, result, now>>
               ELSE /\ Throw(w, [att[w] EXCEPT !.class = "error"], "store")
                    /\ UNCHANGED <<table, win>>
  /\ UNCHANGED <<preferencesTableName, dispatchQueueUrl, clock, batch, err>>
  /\ UNCHANGED <<backoffVars, rankVars>>

(***************************************************************************)
(* sendThroughProvider, lines 91-98 and 151-161.                           *)
(***************************************************************************)
\* The record at position i of the batch has been handed to the provider.
Handed(recs, i) == [recs EXCEPT ![i].handed = TRUE]

\* The table after a provider failure that gave the slot of key k back.
Refunded(k) ==
  IF k = NoKey \/ ~preferencesTableName
  THEN table
  ELSE [table EXCEPT ![k].count = @ - 1]

\* The provider call when a failure gives the consumed slot back.
SendThroughProviderRefund(w, providerOutcomes) ==
  /\ pc[w] = "send"
  /\ batch' = Set(batch, w, Handed(batch[w], idx[w]))
  /\ win' = IF Current(w).key = NoKey
            THEN win
            ELSE [win EXCEPT ![Current(w).key].sends = @ + 1]
  /\ \E o \in providerOutcomes :
       IF o = "ok"
       THEN /\ Continue(w, [att[w] EXCEPT !.providerCalls = @ + 1,
                                          !.class = "sent"])
            /\ err' = err
            /\ table' = table
       ELSE /\ att' = Set(att, w, [att[w] EXCEPT !.providerCalls = @ + 1,
                                                 !.providerError = o,
                                                 !.class = "failed"])
            /\ err' = Set(err, w, o)
            /\ pc' = Set(pc, w, "failed")
            /\ now' = Set(now, w, 0)
            /\ state' = Set(state, w, NoItem)
            /\ table' = Refunded(Current(w).key)
            /\ UNCHANGED <<idx, classes, result>>
  /\ UNCHANGED <<preferencesTableName, dispatchQueueUrl, clock>>
  /\ UNCHANGED <<backoffVars, rankVars>>

\* Lines 151-153: one call of the provider; it returns, or raises an error
\* that the catch block keeps in err.
SendThroughProvider(w, providerOutcomes) ==
  /\ pc[w] = "send"
  /\ batch' = Set(batch, w, Handed(batch[w], idx[w]))
  /\ win' = IF Current(w).key = NoKey
            THEN win
            ELSE [win EXCEPT ![Current(w).key].sends = @ + 1]
  /\ \E o \in providerOutcomes :
       IF o = "ok"
       THEN /\ Continue(w, [att[w] EXCEPT !.providerCalls = @ + 1,
                                          !.class = "sent"])
            /\ err' = err
       ELSE /\ att' = Set(att, w, [att[w] EXCEPT !.providerCalls = @ + 1,
                                                 !.providerError = o,
                                                 !.class = "failed"])
            /\ err' = Set(err, w, o)
            /\ pc' = Set(pc, w, "failed")
            /\ now' = Set(now, w, 0)
            /\ state' = Set(state, w, NoItem)
            /\ UNCHANGED <<idx, classes, result>>
  /\ UNCHANGED <<preferencesTableName, dispatchQueueUrl, clock, table>>
  /\ UNCHANGED <<backoffVars, rankVars>>

(***************************************************************************)
(* applyBackoffIfPossible, lines 106-128.                                  *)
(***************************************************************************)
\* A guard that never lets the request through.
BackoffNever(record) == FALSE

\* Line 110: nothing is requested without a queue URL or a receipt handle.
BackoffPossible(record) == dispatchQueueUrl /\ record.receiptHandle

\* Lines 108, 114-122: the ChangeMessageVisibility request for the record.
BackoffRequest(a, record) ==
  LET receiveCount == ReceiveCountOf(record)
      delayMs == computeBackoffDelayMs(receiveCount)
  IN [a EXCEPT !.requests = @ + 1,
               !.receiveCount = receiveCount,
               !.delayMs = delayMs,
               !.visibilityTimeout = VisibilityTimeoutOf(delayMs)]

\* The attempt a on key k ended rate-limited: denied, backoff requested.
Limited(k, a) ==
  IF k # NoKey /\ a.class = "limited" /\ a.requests > 0 /\ a.providerCalls = 0
  THEN [win EXCEPT ![k].limited = @ + 1]
  ELSE win

\* The handler without the continue of line 148: after the backoff of a
\* denied record it goes on to the provider call.
ApplyBackoffThenSend(w, sqsOutcomes) ==
  /\ pc[w] \in {"limited", "failed"}
  /\ LET called == [att[w] EXCEPT !.backoffCalls = @ + 1,
                                  !.class = pc[w]]
         a == IF BackoffPossible(Current(w))
              THEN BackoffRequest(called, Current(w))
              ELSE called
     IN \E o \in (IF BackoffPossible(Current(w)) THEN sqsOutcomes ELSE {"ok"}) :
          IF o # "ok"
          THEN Throw(w, a, o) /\ win' = win
          ELSE IF pc[w] = "limited"
               THEN /\ pc' = Set(pc, w, "send")
                    /\ att' = Set(att, w, a)
                    /\ win' = Limited(Current(w).key, a)
                    /\ UNCHANGED <<idx, classes, result, now, state>>
               ELSE Throw(w, a, err[w]) /\ win' = win
  /\ UNCHANGED <<preferencesTableName, dispatchQueueUrl, clock, table, batch,
                 err>>
  /\ UNCHANGED <<backoffVars, rankVars>>

\* The handler without the throw err of line 160: after the backoff of a
\* failed record it goes on with the next record.
ApplyBackoffAndGoOn(w, sqsOutcomes) ==
  /\ pc[w] \in {"limited", "failed"}
  /\ LET called == [att[w] EXCEPT !.backoffCalls = @ + 1,
                                  !.class = pc[w]]
         a == IF BackoffPossible(Current(w))
              THEN BackoffRequest(called, Current(w))
              ELSE called
     IN \E o \in (IF BackoffPossible(Current(w)) THEN sqsOutcomes ELSE {"ok"}) :
          IF o # "ok"
          THEN Throw(w, a, o) /\ win' = win
          ELSE Continue(w, a) /\ win' = Limited(Current(w).key, a)
  /\ UNCHANGED <<preferencesTableName, dispatchQueueUrl, clock, table, batch,
                 err>>
  /\ UNCHANGED <<backoffVars, rankVars>>

\* Lines 147-148 (after a denial) and 159-160 (after a provider error): the
\* backoff, then continue with the next record, or throw err.  The request
\* may be rejected (sqsOutcomes), and the rejection leaves the handler.
ApplyBackoffIfPossible(w, sqsOutcomes) ==
  /\ pc[w] \in {"limited", "failed"}
  /\ LET called == [att[w] EXCEPT !.backoffCalls = @ + 1,
                                  !.class = pc[w]]
         a == IF BackoffPossible(Current(w))
              THEN BackoffRequest(called, Current(w))
              ELSE called
     IN \E o \in (IF BackoffPossible(Current(w)) THEN sqsOutcomes ELSE {"ok"}) :
          IF o # "ok"
          THEN Throw(w, a, o) /\ win' = win
          ELSE IF pc[w] = "limited"
               THEN Continue(w, a) /\ win' = Limited(Current(w).key, a)
               ELSE Throw(w, a, err[w]) /\ win' = win
  /\ UNCHANGED <<preferencesTableName, dispatchQueueUrl, clock, table, batch,
                 err>>
  /\ UNCHANGED <<backoffVars, rankVars>>

(***************************************************************************)
(* The transport: the SQS event-source mapping of the dispatch Lambda.     *)
(***************************************************************************)
FromQueue(recs) == SelectSeq(recs, LAMBDA r : r.receiptHandle)

\* The handler returned: the transport deletes every message of the batch.
Acknowledge(w) ==
  /\ pc[w] = "returned"
  /\ pc' = Set(pc, w, "deleted")
  /\ UNCHANGED <<preferencesTableName, dispatchQueueUrl, clock, table, batch,
                 idx, now, state, err, att, classes, result, win>>
  /\ UNCHANGED <<backoffVars, rankVars>>

\* A message is received again with its receive count advanced.
Received(r) == [r EXCEPT !.receiveCount = Val(ReceiveCountOf(r) + 1)]

Retryable(recs) ==
  SelectSeq(recs, LAMBDA r : r.receiptHandle /\ ReceiveCountOf(r) < MaxReceiveCount)

Again(recs) == [i \in 1..Len(Retryable(recs)) |-> Received(Retryable(recs)[i])]

\* The handler raised: the messages of the batch stay in the queue and are
\* delivered again, each until its receive count reaches maxReceiveCount
\* (then it goes to the dead-letter queue).  A direct caller gets the error.
Redeliver(w) ==
  /\ pc[w] = "threw"
  /\ IF Again(batch[w]) = <<>>
     THEN /\ pc' = Set(pc, w, "dead")
          /\ UNCHANGED <<batch, idx, att, classes, result, err>>
     ELSE /\ pc' = Set(pc, w, "sendAfter")
          /\ batch' = Set(batch, w, Again(batch[w]))
          /\ idx' = Set(idx, w, 1)
          /\ att' = Set(att, w, NoAttempt)
          /\ classes' = Set(classes, w, <<>>)
          /\ result' = Set(result, w, NoResult)
          /\ err' = Set(err, w, "none")
  /\ UNCHANGED <<preferencesTableName, dispatchQueueUrl, clock, table, now,
                 state, win>>
  /\ UNCHANGED <<backoffVars, rankVars>>

(***************************************************************************)
(* Specifications.                                                         *)
(***************************************************************************)
\* Records the transport delivers (receipt handle, receive count 1) and
\* events of a direct caller (the message itself: neither).
SqsRecords(keys, sendAfters, counts) ==
  {Rec(k, sa, Val(n), TRUE) : k \in keys, sa \in sendAfters, n \in counts}
DirectRecords(keys, sendAfters) ==
  {Rec(k, sa, Absent, FALSE) : k \in keys, sa \in sendAfters}

Batches(records, n) == UNION {[1..l -> records] : l \in 1..n}

\* One step of worker w in an environment env.
Step(w, env) ==
  \/ \E recs \in env.batches : Invoke(w, recs)
  \/ CheckSendAfter(w)
  \/ EnterRateLimit(w)
  \/ LoadPreferences(w, env.store)
  \/ UpdateRateLimitState(w, env.store)
  \/ SendThroughProvider(w, env.provider)
  \/ ApplyBackoffIfPossible(w, env.sqs)
  \/ Acknowledge(w)
  \/ Redeliver(w)

\* Sequential dispatch in a configured deployment (PREFERENCES_TABLE_NAME
\* and PRIORITY_QUEUE_URL set): one worker, single-record invocations by the
\* transport, every call to the store and to the transport completes.
SeqEnv ==
  [batches |-> Batches(SqsRecords({"user:42", NoKey},
                                  {Absent, Invalid, Val(TickMs)}, {1}), 1),
   store |-> {"ok"}, provider |-> {"ok", "provider"}, sqs |-> {"ok"}]

Init == Start({TRUE}, {TRUE})

Next == Tick(MaxClock) \/ Step("w1", SeqEnv)

Spec == Init /\ [][Next]_vars

\* The same deployment when calls to the store and to the transport may be
\* rejected.
FaultEnv ==
  [batches |-> Batches(SqsRecords({"user:42", NoKey},
                                  {Absent, Val(TickMs)}, {1}), 1),
   store |-> {"ok", "store"}, provider |-> {"ok", "provider"},
   sqs |-> {"ok", "sqs"}]

FaultNext == Tick(MaxClock) \/ Step("w1", FaultEnv)

FaultSpec == Init /\ [][FaultNext]_vars

\* Any deployment (either variable set or not), invoked by the transport or
\* directly, with calls that may be rejected.
AnyEnv ==
  [batches |-> Batches(SqsRecords({"user:42", NoKey},
                                  {Absent, Invalid, Val(TickMs)}, {1})
                       \cup DirectRecords({"user:42"}, {Absent, Val(TickMs)}), 1),
   store |-> {"ok", "store"}, provider |-> {"ok", "provider"},
   sqs |-> {"ok", "sqs"}]

AnyInit == Start(BOOLEAN, BOOLEAN)

AnyNext == Tick(MaxClock) \/ Step("w1", AnyEnv)

AnySpec == AnyInit /\ [][AnyNext]_vars

\* Two workers dispatch messages of one key concurrently inside one window
\* (the clock stays within RATE_LIMIT_WINDOW_MS of the start); the provider
\* succeeds.
RaceRecords == SqsRecords({"user:42"}, {Absent, Val(TickMs)}, {1})

RaceStep(w) ==
  \/ \E r \in RaceRecords : Invoke(w, <<r>>)
  \/ CheckSendAfter(w)
  \/ EnterRateLimit(w)
  \/ LoadPreferences(w, {"ok"})
  \/ UpdateRateLimitState(w, {"ok"})
  \/ SendThroughProvider(w, {"ok"})
  \/ ApplyBackoffIfPossible(w, {"ok"})
  \/ Acknowledge(w)

RaceNext == Tick(RATE_LIMIT_WINDOW_MS) \/ \E w \in Workers : RaceStep(w)

\* The race starts when all but RaceFree slots of the window of "user:42" are
\* used: the state after RaceUsed sequential dispatches at time 0.
RaceUsed == RATE_LIMIT_MAX_PER_WINDOW - RaceFree

RaceInit ==
  /\ preferencesTableName = TRUE
  /\ dispatchQueueUrl = TRUE
  /\ clock = 0
  /\ table = [k \in Keys |->
                IF k = "user:42"
                THEN Item(0, RaceUsed)
                ELSE NoItem]
  /\ pc = [w \in Workers |-> "idle"]
  /\ batch = [w \in Workers |-> <<>>]
  /\ idx = [w \in Workers |-> 0]
  /\ now = [w \in Workers |-> 0]
  /\ state = [w \in Workers |-> NoItem]
  /\ err = [w \in Workers |-> "none"]
  /\ att = [w \in Workers |-> NoAttempt]
  /\ classes = [w \in Workers |-> <<>>]
  /\ result = [w \in Workers |-> NoResult]
  /\ win = [k \in Keys |->
              IF k = "user:42"
              THEN [NoWindow EXCEPT !.admits = RaceUsed, !.sends = RaceUsed]
              ELSE NoWindow]
  /\ BackoffIdle
  /\ RankIdle({TRUE})

RaceSpec == RaceInit /\ [][RaceNext]_vars

\* Invocations over batches of two records in a configured deployment: the
\* provider may fail, and the transport delivers a failed batch again.
PairRecords ==
  {Rec("user:42", Absent, Val(1), TRUE), Rec(NoKey, Absent, Val(1), TRUE),
   Rec("user:42", Val(TickMs), Val(1), TRUE)}

BatchEnv ==
  [batches |-> [1..2 -> PairRecords],
   store |-> {"ok"}, provider |-> {"ok", "provider"}, sqs |-> {"ok"}]

BatchNext == Tick(MaxClock) \/ Step("w1", BatchEnv)

BatchSpec == Init /\ [][BatchNext]_vars

(***************************************************************************)
(* The Backoff Scheduler on its own: computeBackoffDelayMs, lines 100-104, *)
(* applied to the receive counts 0..MaxAttemptCount, one after the other   *)
(* as redeliveries raise the count.                                        *)
(***************************************************************************)
MaxAttemptCount == 30

BackoffInit ==
  /\ DispatchIdle({TRUE}, {TRUE})
  /\ RankIdle({TRUE})
  /\ retryCount \in 0..MaxAttemptCount
  /\ retryDelay = NoDelay
  /\ retryPrev = NoDelay

\* Line 109: const delayMs = computeBackoffDelayMs(receiveCount).
ComputeBackoffDelayMs ==
  /\ retryDelay = NoDelay
  /\ retryDelay' = computeBackoffDelayMs(retryCount)
  /\ UNCHANGED <<retryCount, retryPrev, dispatchVars, rankVars>>

\* The next delivery of the message carries the next receive count.
NextReceive ==
  /\ retryDelay # NoDelay
  /\ retryCount < MaxAttemptCount
  /\ retryCount' = retryCount + 1
  /\ retryPrev' = retryDelay
  /\ retryDelay' = NoDelay
  /\ UNCHANGED <<dispatchVars, rankVars>>

BackoffNext == ComputeBackoffDelayMs \/ NextReceive

BackoffSpec == BackoffInit /\ [][BackoffNext]_vars

(***************************************************************************)
(* The ranking Lambda, services/ranking/handler.ts.                        *)
(*                                                                         *)
(* Numbers.  A JavaScript number x (an IEEE 754 double) is kept exactly,   *)
(* as x * 2^54 = hi * 2^27 + lo with 0 <= lo < 2^27: every double the      *)
(* ranking code meets that is not an integer lies in [0.125, 2) and is a   *)
(* multiple of 2^-54.                                                      *)
(***************************************************************************)
Two27 == 134217728
Two26 == 67108864

Num(hi, lo) == [hi |-> hi, lo |-> lo]
Whole(n) == Num(n * Two27, 0)

\* The literals of the code, as the doubles nearest to them.
D0_5 == Num(67108864, 0)
D0_3 == Num(40265318, 53687091)
D0_2 == Num(26843545, 80530637)
D0_8 == Num(107374182, 53687092)
D0_6 == Num(80530636, 107374182)
D0_7 == Num(93952409, 80530636)
D0_92 == Num(123480309, 102005474)
D2_5 == Num(335544320, 0)

IsInteger(x) == x.lo = 0 /\ x.hi % Two27 = 0

\* a < b and a > b on numbers.
LessThan(a, b) == a.hi < b.hi \/ (a.hi = b.hi /\ a.lo < b.lo)
Greater(a, b) == LessThan(b, a)

MathMin(a, b) == IF LessThan(b, a) THEN b ELSE a
MathMax(a, b) == IF LessThan(a, b) THEN b ELSE a

\* The spacing of the doubles, in units of 2^-54, at a value in [0, 2).
Ulp(hi) == IF hi < Two26 THEN 1 ELSE IF hi < Two27 THEN 2 ELSE 4

\* The double nearest to an exact value in [0.25, 2), ties to even.
RoundToDouble(hi, lo) ==
  LET q == Ulp(hi)
      r == lo % q
      down == lo - r
      up == down + q
      pick == IF 2 * r < q THEN down
              ELSE IF 2 * r > q THEN up
              ELSE IF (down \div q) % 2 = 0 THEN down ELSE up
  IN IF pick = Two27 THEN Num(hi + 1, 0) ELSE Num(hi, pick)

\* a + b for doubles a, b >= 0 whose sum is in [0.25, 2): the exact sum,
\* rounded once.
Plus(a, b) ==
  LET lo == a.lo + b.lo
  IN RoundToDouble(a.hi + b.hi + (lo \div Two27), lo % Two27)

(***************************************************************************)
(* Strings and events.  A string is the sequence of its words (the words   *)
(* are separated by single spaces); the keywords of fallbackScore hold no  *)
(* space, so a keyword occurs in a string iff it occurs in one word.       *)
(***************************************************************************)
Words == {"URGENT", "urgently", "Critical", "error", "Incident", "sale"}

\* String.prototype.toLowerCase on one word.
LowerWord(word) ==
  CASE word = "URGENT" -> "urgent"
    [] word = "Critical" -> "critical"
    [] word = "Incident" -> "incident"
    [] OTHER -> word

toLowerCase(str) == [i \in DOMAIN str |-> LowerWord(str[i])]

\* The keywords that occur in a word as written (includes is case-sensitive).
Occurs(word) ==
  CASE word = "urgent" -> {"urgent"}
    [] word = "urgently" -> {"urgent"}
    [] word = "critical" -> {"critical"}
    [] word = "error" -> {"error"}
    [] word = "incident" -> {"incident"}
    [] OTHER -> {}

\* String.prototype.includes for a keyword.
includes(str, keyword) == \E i \in DOMAIN str : keyword \in Occurs(str[i])

\* A NotificationEvent: the content the scoring reads.
Event(title, body) == [title |-> title, body |-> body]
Events == {Event(<<t>>, <<b>>) : t \in Words, b \in Words}

(***************************************************************************)
(* JavaScript values of the fields of the parsed reply.                    *)
(***************************************************************************)
Undefined == [t |-> "undefined", num |-> Whole(0), str |-> ""]
JNull == [t |-> "null", num |-> Whole(0), str |-> ""]
JStr(str) == [t |-> "string", num |-> Whole(0), str |-> str]
JNum(x) == [t |-> "number", num |-> x, str |-> ""]

typeof(v) == IF v.t = "null" THEN "object" ELSE v.t

\* v && ... : whether v is truthy.
Truthy(v) ==
  CASE v.t = "string" -> v.str # ""
    [] v.t = "number" -> v.num # Whole(0)
    [] OTHER -> FALSE

\* What scoreWithLLM and fallbackScore return.
Ranking(score, priority, sendAfter) ==
  [kind |-> "ranking", score |-> score, priority |-> priority,
   sendAfter |-> sendAfter]

\* The priority of line 55 with >= where the code has >.
PriorityOfInclusive(score) ==
  IF ~LessThan(score, D0_8) THEN Whole(1)
  ELSE IF ~LessThan(score, D0_6) THEN Whole(3) ELSE Whole(5)

\* Line 55: score > 0.8 ? 1 : score > 0.6 ? 3 : 5.
PriorityOf(score) ==
  IF Greater(score, D0_8) THEN Whole(1)
  ELSE IF Greater(score, D0_6) THEN Whole(3) ELSE Whole(5)

\* fallbackScore, lines 42-58.
fallbackScore(event) ==
  LET text == toLowerCase(event.title \o event.body)
      base == D0_5
      urgent == IF includes(text, "urgent") \/ includes(text, "critical")
                THEN Plus(base, D0_3) ELSE base
      incident == IF includes(text, "error") \/ includes(text, "incident")
                  THEN Plus(urgent, D0_2) ELSE urgent
      score == MathMin(Whole(1), MathMax(Whole(0), incident))
  IN Ranking(score, PriorityOf(score), Undefined)

(***************************************************************************)
(* scoreWithLLM, lines 65-146.                                             *)
(***************************************************************************)
MAX_RETRIES == 3
BASE_DELAY_MS == 10000

\* What one call of the external service does: generateContent rejects with
\* an error of some class carrying a message, or it answers with a text,
\* which may be wrapped in a markdown fence.
Rejects(class, message) ==
  [kind |-> "reject", class |-> class, message |-> message, fenced |-> FALSE,
   doc |-> [json |-> "none", text |-> "", score |-> Undefined,
            priority |-> Undefined, sendAfter |-> Undefined]]
Responds(fenced, doc) ==
  [kind |-> "text", class |-> "none", message |-> "", fenced |-> fenced,
   doc |-> doc]

\* The text of an answer, by what JSON.parse makes of it: no JSON at all, the
\* JSON null, a JSON number, or a JSON object with its three fields.
NotJson(text) ==
  [json |-> "none", text |-> text, score |-> Undefined,
   priority |-> Undefined, sendAfter |-> Undefined]
JsonNull ==
  [json |-> "null", text |-> "null", score |-> Undefined,
   priority |-> Undefined, sendAfter |-> Undefined]
JsonNumber ==
  [json |-> "number", text |-> "42", score |-> Undefined,
   priority |-> Undefined, sendAfter |-> Undefined]
JsonObject(score, priority, sendAfter) ==
  [json |-> "object", text |-> "{...}", score |-> score,
   priority |-> priority, sendAfter |-> sendAfter]

\* The message of the SyntaxError JSON.parse throws: it quotes the text.
SyntaxMessage(text) ==
  CASE text = "Error 429: slow down" ->
         "Unexpected token 'E', \"Error 429: slow down\" is not valid JSON"
    [] OTHER -> "Unexpected token 'S', \"Sure, here it is\" is not valid JSON"

\* The message of the TypeError of parsed.score when parsed is null.
NullMessage == "Cannot read properties of null (reading 'score')"

\* Lines 106-127: the message of the error the attempt catches ("" when the
\* error has none), or whether nothing is thrown.
Throws(reply) ==
  reply.kind = "reject" \/ reply.doc.json \in {"none", "null"}
Message(reply) ==
  IF reply.kind = "reject" THEN reply.message
  ELSE IF reply.doc.json = "none" THEN SyntaxMessage(reply.doc.text)
  ELSE NullMessage

\* Which of the three phrases of line 128 a message contains.
Phrases(message) ==
  CASE message = "[429 Too Many Requests] Resource has been exhausted" ->
         {"429", "Too Many Requests"}
    [] message = "Quota exceeded for quota metric" -> {"Quota exceeded"}
    [] message = "[500 Internal Server Error] request 4290 failed" -> {"429"}
    [] message = SyntaxMessage("Error 429: slow down") -> {"429"}
    [] OTHER -> {}

\* Line 128.
isRateLimit(message) ==
  Phrases(message) \cap {"429", "Quota exceeded", "Too Many Requests"} # {}

\* The class of the failure of a reply: "rateLimit" only when the service
\* rejected the call for rate or quota.
ClassOf(reply) ==
  IF reply.kind = "reject" THEN reply.class
  ELSE IF reply.doc.json = "none" THEN "parse"
  ELSE IF reply.doc.json = "null" THEN "null"
  ELSE "none"

\* Lines 120-125 with && in place of the conditional of line 121's default:
\* one wrong field gives up all three.
FromParsedTogether(parsed) ==
  IF typeof(parsed.score) = "number" /\ typeof(parsed.priority) = "number"
  THEN Ranking(parsed.score.num, parsed.priority.num,
               IF Truthy(parsed.sendAfter) /\ typeof(parsed.sendAfter) = "string"
               THEN parsed.sendAfter ELSE Undefined)
  ELSE Ranking(D0_5, Whole(5), Undefined)

\* Lines 120-125.
FromParsed(parsed) ==
  Ranking(IF typeof(parsed.score) = "number" THEN parsed.score.num ELSE D0_5,
          IF typeof(parsed.priority) = "number" THEN parsed.priority.num
          ELSE Whole(5),
          IF Truthy(parsed.sendAfter) /\ typeof(parsed.sendAfter) = "string"
          THEN parsed.sendAfter ELSE Undefined)

\* Line 130 with <= where the code has <.
MayRetryOnceMore(message, n) == isRateLimit(message) /\ n <= MAX_RETRIES

\* Line 130: isRateLimit && attempt < MAX_RETRIES.
MayRetry(message, n) == isRateLimit(message) /\ n < MAX_RETRIES

\* Line 131 without the doubling.
RetryDelayFlat(n) == BASE_DELAY_MS

\* Line 131.
RetryDelay(n) == BASE_DELAY_MS * 2 ^ (n - 1)

(***************************************************************************)
(* handler, lines 177-204, and the steps of scoreWithLLM.                  *)
(***************************************************************************)
\* Lines 178-182: an invocation with the events of its records.
RankInvoke(evs) ==
  /\ rpc \in {"idle", "returned"}
  /\ events' = evs
  /\ ri' = 1
  /\ rpc' = "score"
  /\ attempt' = 0
  /\ replies' = <<>>
  /\ waits' = <<>>
  /\ ranking' = NoRanking
  /\ priorityQueue' = <<>>
  /\ UNCHANGED <<genAI, dispatchVars, backoffVars>>

\* scoreWithLLM without the test of line 70.
ScoreWithLLMAlways ==
  /\ rpc = "score"
  /\ attempt' = 1
  /\ rpc' = "call"
  /\ UNCHANGED <<genAI, events, ri, replies, waits, ranking, priorityQueue,
                 dispatchVars, backoffVars>>

\* Lines 70-104: without a client the fallback at once, else attempt 1.
ScoreWithLLM ==
  /\ rpc = "score"
  /\ IF ~genAI
     THEN /\ ranking' = fallbackScore(events[ri])
          /\ rpc' = "send"
          /\ attempt' = attempt
     ELSE /\ attempt' = 1
          /\ rpc' = "call"
          /\ ranking' = ranking
  /\ UNCHANGED <<genAI, events, ri, replies, waits, priorityQueue,
                 dispatchVars, backoffVars>>

\* Lines 106-143: one attempt, from the call of the service to the return,
\* the start of the wait, or the fallback.
GenerateContent(service) ==
  /\ rpc = "call"
  /\ \E reply \in service :
       /\ replies' = Append(replies, reply)
       /\ IF ~Throws(reply)
          THEN /\ ranking' = FromParsed(reply.doc)
               /\ rpc' = "send"
               /\ waits' = waits
          ELSE IF MayRetry(Message(reply), attempt)
          THEN /\ waits' = Append(waits, RetryDelay(attempt))
               /\ rpc' = "wait"
               /\ ranking' = ranking
          ELSE /\ ranking' = fallbackScore(events[ri])
               /\ rpc' = "send"
               /\ waits' = waits
  /\ UNCHANGED <<genAI, events, ri, attempt, priorityQueue, dispatchVars,
                 backoffVars>>

\* Lines 133-134: the timer of the wait fires; the loop goes on.
Timeout ==
  /\ rpc = "wait"
  /\ attempt' = attempt + 1
  /\ rpc' = "call"
  /\ UNCHANGED <<genAI, events, ri, replies, waits, ranking, priorityQueue,
                 dispatchVars, backoffVars>>

\* Lines 185-197.
RankedMessage(event, r) ==
  [event |-> event, priority |-> r.priority, score |-> r.score,
   sendAfter |-> r.sendAfter]

\* Lines 199-203: the message goes to the priority queue; the loop takes the
\* next record or the handler returns.
SendToPriorityQueue ==
  /\ rpc = "send"
  /\ priorityQueue' = Append(priorityQueue, RankedMessage(events[ri], ranking))
  /\ IF ri < Len(events)
     THEN /\ ri' = ri + 1
          /\ rpc' = "score"
          /\ attempt' = 0
          /\ replies' = <<>>
          /\ waits' = <<>>
          /\ ranking' = NoRanking
     ELSE /\ rpc' = "returned"
          /\ UNCHANGED <<ri, attempt, replies, waits, ranking>>
  /\ UNCHANGED <<genAI, events, dispatchVars, backoffVars>>

\* The behaviours of the service: rejections for rate or quota, other
\* rejections (one with no message, one whose message holds the digits
\* 429), and answers of every shape.
Rejections ==
  {Rejects("rateLimit", "[429 Too Many Requests] Resource has been exhausted"),
   Rejects("rateLimit", "Quota exceeded for quota metric"),
   Rejects("other", "fetch failed"),
   Rejects("other", ""),
   Rejects("other", "[500 Internal Server Error] request 4290 failed")}

Scores == {Undefined, JStr("high"), JNum(D0_92), JNum(Whole(7))}
Priorities == {Undefined, JStr("1"), JNum(Whole(1)), JNum(D2_5)}
SendAfters ==
  {Undefined, JNull, JStr(""), JStr("2030-01-01T00:00:00Z"), JNum(Whole(1))}

Docs ==
  {JsonObject(sc, pr, sa) : sc \in Scores, pr \in Priorities, sa \in SendAfters}
    \cup {JsonNull, JsonNumber, NotJson("Sure, here it is"),
          NotJson("Error 429: slow down")}

\* The reply of the prompt's example, inside a markdown fence.
Fenced ==
  Responds(TRUE, JsonObject(JNum(D0_92), JNum(Whole(1)), JNull))

Service == Rejections \cup {Responds(FALSE, d) : d \in Docs} \cup {Fenced}

\* The events of the invocations: every single event, and a batch of two
\* records, a calm event before an alarming one.
RankBatches ==
  Batches(Events, 1)
    \cup {<<Event(<<"sale">>, <<"sale">>), Event(<<"URGENT">>, <<"error">>)>>}

RankInit ==
  /\ DispatchIdle({TRUE}, {TRUE})
  /\ BackoffIdle
  /\ RankIdle(BOOLEAN)

RankNext ==
  \/ \E evs \in RankBatches : RankInvoke(evs)
  \/ ScoreWithLLM
  \/ GenerateContent(Service)
  \/ Timeout
  \/ SendToPriorityQueue

RankSpec == RankInit /\ [][RankNext]_vars

(***************************************************************************)
(* Properties.                                                             *)
(***************************************************************************)
\* No invocation of worker w is between its start and its end.
Quiet(w) == pc[w] \in {"idle", "returned", "threw", "deleted", "dead"}

\* C1: with admit calls of a key running one at a time (Spec), the stored
\* count of every key never exceeds the capacity 30, and no more than 30
\* calls were admitted inside the stored window.
C1_CountWithinCapacity ==
  \A k \in Keys :
    /\ table[k].count <= 30
    /\ win[k].admits <= 30

\* C1 witness: a sequential run has filled the window: 30 admits, count 30,
\* and a further call has been denied.
C1_WindowFull ==
  /\ table["user:42"].count = 30
  /\ win["user:42"].admits = 30
  /\ win["user:42"].denials > 0

\* The state RaceSpec starts from is one sequential dispatch reaches:
\* RaceStartUnreached is violated as an invariant of Spec.
RaceStartUnreached ==
  ~(/\ clock = 0
    /\ table["user:42"] = Item(0, RaceUsed)
    /\ win["user:42"] = [NoWindow EXCEPT !.admits = RaceUsed, !.sends = RaceUsed]
    /\ Quiet("w1"))

\* Worker w has been admitted on key k and has not called the provider yet.
AdmittedOn(w, k) ==
  /\ pc[w] = "send"
  /\ Current(w).key = k
  /\ att[w].allowed = "admit"

\* C2: with two workers on one key (RaceSpec), two admissions decided on the
\* same read state are stored as one increment: the item holds the state
\* both of them wrote, so one of the two updates is lost; the stored count
\* itself stays within the capacity.
C2_LostUpdate ==
  /\ \A k \in Keys : table[k].count <= RATE_LIMIT_MAX_PER_WINDOW
  /\ \A k \in Keys : \A w1, w2 \in Workers :
       (w1 # w2 /\ AdmittedOn(w1, k) /\ AdmittedOn(w2, k) /\ state[w1] = state[w2])
         => table[k] = state[w1]

\* C2 witness: both workers read the same stale count 29 and both are
\* admitted: 31 admits in the window, a stored count of 30.
C2_BothAdmittedPastCapacity ==
  /\ AdmittedOn("w1", "user:42")
  /\ AdmittedOn("w2", "user:42")
  /\ state["w1"] = state["w2"]
  /\ win["user:42"].admits > RATE_LIMIT_MAX_PER_WINDOW
  /\ table["user:42"].count <= RATE_LIMIT_MAX_PER_WINDOW
  /\ table["user:42"].count < win["user:42"].admits

\* C3: for sequential calls on one key (Spec), a call made while fewer than
\* 30 calls were made in the live window (now - windowStart <= 60000) is
\* admitted, a call made after 30 calls in the live window (the 31st) is
\* denied, and a call made after the window has elapsed
\* (now - windowStart > 60000) is admitted and leaves windowStart = now,
\* count = 1 in the store.
C3_WindowSequence ==
  [][\A w \in Workers :
       (pc[w] = "update" /\ pc'[w] # "update") =>
         LET k == Current(w).key
             old == table[k]
             live == old.present /\ now[w] - old.windowStart <= 60000
             elapsed == old.present /\ now[w] - old.windowStart > 60000
             calls == win[k].admits + win[k].denials
         IN /\ ((~old.present \/ live) /\ calls < 30)
                 => att'[w].allowed = "admit"
            /\ (live /\ calls >= 30)
                 => (att'[w].allowed = "deny" /\ table' = table)
            /\ elapsed
                 => (att'[w].allowed = "admit" /\ table'[k] = Item(now[w], 1))
    ]_vars

\* C3 witness: the 31st call of a window is denied at the window's last
\* millisecond (now - windowStart = 60000).
C3_ThirtyFirstDenied ==
  /\ pc["w1"] = "limited"
  /\ att["w1"].allowed = "deny"
  /\ win["user:42"].admits = 30
  /\ win["user:42"].denials = 1
  /\ table["user:42"].present
  /\ now["w1"] - table["user:42"].windowStart = RATE_LIMIT_WINDOW_MS

\* C4: end to end (Spec): once 31 dispatch attempts of one key have reached
\* the guard in one window, the provider was invoked exactly 30 times and
\* exactly 1 attempt ended rate-limited (backoff requested, provider not
\* invoked).
C4_ThirtyOneDispatches ==
  \A k \in Keys :
    (Quiet("w1") /\ win[k].admits + win[k].denials = 31)
      => (win[k].sends = 30 /\ win[k].limited = 1)

\* C4 witness: the 31st dispatch of the window has ended.
C4_ThirtyOneDone ==
  /\ Quiet("w1")
  /\ win["user:42"].admits + win["user:42"].denials = 31
  /\ win["user:42"].sends = 30
  /\ win["user:42"].limited = 1

\* What C5 says of one attempt a.
Ended(a) == a.class # "pending"
ProviderCallsAsDecided(a) ==
  /\ a.providerCalls \in {0, 1}
  /\ a.providerCalls = 1 => (~a.deferred /\ a.allowed = "admit")
  /\ (a.deferred \/ a.allowed = "deny") => a.providerCalls = 0
  /\ (Ended(a) /\ ~a.deferred /\ a.allowed = "admit") => a.providerCalls = 1

\* C5: in every attempt (AnySpec) the provider is invoked exactly once when
\* the attempt is not deferred and the guard admitted it, never when it is
\* deferred or denied, and never before the admission decision.
C5_ProviderOncePerAdmission ==
  \A w \in Workers :
    /\ ProviderCallsAsDecided(att[w])
    /\ \A i \in DOMAIN classes[w] :
         Ended(classes[w][i]) /\ ProviderCallsAsDecided(classes[w][i])

\* C5 witness: an attempt on a keyed message took the last slot of a window
\* and its one provider call returned.
C5_AdmittedAndSent ==
  /\ pc["w1"] = "returned"
  /\ att["w1"].class = "sent"
  /\ att["w1"].allowed = "admit"
  /\ att["w1"].providerCalls = 1
  /\ Current("w1").key = "user:42"
  /\ table["user:42"].count = 30

\* C6: an attempt on a message whose sendAfter is strictly later than the
\* current time (AnySpec) changes no rate-limit item, requests no backoff and
\* calls no provider; one whose sendAfter is absent, equal to the current
\* time or past is not deferred and goes on to the admission check.
C6_DeferredLeavesNoTrace ==
  [][\A w \in Workers :
       (pc[w] = "sendAfter" /\ (pc'[w] # "sendAfter" \/ idx'[w] # idx[w])) =>
         LET sa == Current(w).sendAfter
             future == sa.kind = "value" /\ sa.v > clock
             due == sa.kind = "absent" \/ (sa.kind = "value" /\ sa.v <= clock)
             done == classes'[w][Len(classes'[w])]
         IN /\ future =>
                 /\ table' = table
                 /\ batch' = batch
                 /\ Len(classes'[w]) = Len(classes[w]) + 1
                 /\ done.deferred
                 /\ done.allowed = "pending"
                 /\ done.backoffCalls = 0
                 /\ done.requests = 0
                 /\ done.providerCalls = 0
            /\ due =>
                 /\ pc'[w] = "withinRateLimit"
                 /\ ~att'[w].deferred
                 /\ classes' = classes
    ]_vars

\* C6 witness: a deferred attempt has ended while the store holds a window.
C6_Deferred ==
  /\ pc["w1"] = "returned"
  /\ att["w1"].deferred
  /\ Current("w1").sendAfter = Val(TickMs)
  /\ Current("w1").key = "user:42"
  /\ table["user:42"].count > 0

\* How the one attempt of a single-record invocation of worker w ended.
Over(w) == pc[w] \in {"returned", "threw"} /\ Len(batch[w]) = 1

\* C7: the outcome the handler gives its caller tells the results apart: an
\* attempt deferred by sendAfter or denied by the guard never ends with the
\* outcome of an attempt whose provider call succeeded, and a denial never
\* ends by raising an error.
C7_OutcomesToldApart ==
  /\ \A w1, w2 \in Workers :
       (Over(w1) /\ Over(w2) /\ att[w1].class = "sent"
          /\ att[w2].class \in {"deferred", "limited"})
         => result[w1] # result[w2]
  /\ \A w \in Workers :
       (Over(w) /\ att[w].class = "limited") => result[w].kind # "throw"

\* C8: no message is lost by a "not yet" decision: the transport, which
\* deletes the messages of an invocation that returned, never deletes a
\* message that was not handed to the provider.
C8_NoMessageLost ==
  \A w \in Workers :
    pc[w] = "deleted" =>
      \A i \in DOMAIN batch[w] :
        batch[w][i].receiptHandle => batch[w][i].handed

\* C9: an attempt whose provider call raised e has requested a backoff from
\* the transport and ends by raising e itself.
C9_ProviderErrorReraised ==
  \A w \in Workers :
    (Quiet(w) /\ att[w].providerError # "none") =>
      /\ att[w].requests >= 1
      /\ result[w] = Raised(att[w].providerError)

\* C10: the delay handed to the transport for attempt count n (the
\* VisibilityTimeout, in seconds) is min(200 * 2^min(n,10), 30000)
\* milliseconds, and is greater than zero.
C10_DelayHandedToTransport ==
  \A w \in Workers :
    att[w].requests > 0 =>
      LET n == att[w].receiveCount
          d == 200 * 2 ^ (IF n < 10 THEN n ELSE 10)
          delayFor == IF d < 30000 THEN d ELSE 30000
      IN /\ att[w].visibilityTimeout * 1000 = delayFor
         /\ att[w].visibilityTimeout > 0

\* C11: for every attempt count n >= 0 the delay computeBackoffDelayMs
\* returns is min(200 * 2^min(n,10), 30000) ms: 200 for n = 0, 6400 for
\* n = 5, 30000 for n = 20; it is never below 200, never above 30000, and
\* never smaller than the delay of the count before.
C11_DelayFor ==
  retryDelay # NoDelay =>
    LET n == retryCount
        d == 200 * 2 ^ (IF n < 10 THEN n ELSE 10)
    IN /\ retryDelay = (IF d < 30000 THEN d ELSE 30000)
       /\ n = 0 => retryDelay = 200
       /\ n = 5 => retryDelay = 6400
       /\ n = 20 => retryDelay = 30000
       /\ retryDelay >= 200
       /\ retryDelay <= 30000
       /\ retryPrev # NoDelay => retryPrev <= retryDelay

\* C11 witness: the cap takes effect at count 8, after 25600 ms at count 7.
C11_Capped ==
  /\ retryCount = 8
  /\ retryPrev = 25600
  /\ retryDelay = 30000

\* The call of scoreWithLLM for the record at ri has returned.
Scored == rpc = "send"

\* C12: scoreWithLLM never leaves by an error: whatever the service does
\* (a well-formed answer, a text that is no JSON, the JSON null, rejections
\* for rate limit on any attempts, any other rejection) every attempt ends
\* in a scoring result or in a wait before a further attempt, and a call
\* makes at most 3 service invocations.
C12_AlwaysAResult ==
  /\ Len(replies) <= 3
  /\ rpc \in {"idle", "score", "call", "wait", "send", "returned"}
  /\ rpc \in {"call", "wait"} =>
       /\ genAI
       /\ attempt \in 1..3
       /\ Len(replies) = (IF rpc = "wait" THEN attempt ELSE attempt - 1)
       /\ rpc = "wait" => attempt < 3
  /\ Scored => ranking.kind = "ranking"

\* C12 witness: the third invocation answered the JSON null after two
\* rejections for rate limit, and the call returned a result.
C12_NullAtThirdAttempt ==
  /\ Scored
  /\ Len(replies) = 3
  /\ replies[1].class = "rateLimit"
  /\ replies[2].class = "rateLimit"
  /\ replies[3].doc = JsonNull
  /\ ranking.kind = "ranking"

\* Every invocation of the call so far was rejected for rate limit.
AllRateLimited ==
  /\ Len(replies) > 0
  /\ \A i \in DOMAIN replies : ClassOf(replies[i]) = "rateLimit"

\* C13: when the service rejects every invocation for rate limit,
\* scoreWithLLM invokes it exactly 3 times, waits base * 2^(n-1) after the
\* failed attempt n < 3 (10000 ms, then 20000 ms) and not after the third,
\* and returns the result of fallbackScore for the event.
C13_RetriesThenFallback ==
  AllRateLimited =>
    /\ Len(replies) <= 3
    /\ \A i \in DOMAIN waits : waits[i] = 10000 * 2 ^ (i - 1)
    /\ \A i \in DOMAIN waits : i > 1 => waits[i] > waits[i - 1]
    /\ Len(waits) = (IF Len(replies) < 3 THEN Len(replies) ELSE 2)
    /\ Len(replies) < 3 => rpc \in {"call", "wait"}
    /\ Scored =>
         /\ Len(replies) = 3
         /\ waits = <<10000, 20000>>
         /\ ranking = fallbackScore(events[ri])

\* C13 witness: three rejections for rate limit, two waits, the fallback.
C13_ThreeRejections ==
  /\ AllRateLimited
  /\ Scored
  /\ Len(replies) = 3
  /\ waits = <<10000, 20000>>
  /\ ranking = fallbackScore(events[ri])

\* A scoring result within the ranges of RankedMessage.
ValidRanking(r) ==
  /\ ~LessThan(r.score, Whole(0))
  /\ ~LessThan(Whole(1), r.score)
  /\ IsInteger(r.priority)
  /\ ~LessThan(r.priority, Whole(1))
  /\ ~LessThan(Whole(10), r.priority)

\* C14: every result scoreWithLLM returns, and every RankedMessage put on
\* the priority queue, has a score within [0,1] and an integer priority
\* within 1..10.
C14_ResultInRange ==
  /\ Scored => ValidRanking(ranking)
  /\ \A i \in DOMAIN priorityQueue : ValidRanking(priorityQueue[i])

\* The service answered the last invocation with a JSON object.
ObjectReply ==
  /\ Scored
  /\ Len(replies) > 0
  /\ replies[Len(replies)].kind = "text"
  /\ replies[Len(replies)].doc.json = "object"

\* C15 as stated: of a JSON object every field is treated on its own: a
\* score or priority that is no number becomes 0.5 or 5, a sendAfter that
\* is no string becomes absent, and every field of the right type is
\* returned as received.
C15_FieldsAsReceived ==
  ObjectReply =>
    LET parsed == replies[Len(replies)].doc
    IN /\ ranking.score = (IF parsed.score.t = "number"
                           THEN parsed.score.num ELSE D0_5)
       /\ ranking.priority = (IF parsed.priority.t = "number"
                              THEN parsed.priority.num ELSE Whole(5))
       /\ ranking.sendAfter = (IF parsed.sendAfter.t = "string"
                               THEN parsed.sendAfter ELSE Undefined)

\* C15 amended: as above, but a sendAfter is returned as received only when
\* it is a string that is not empty; the empty string becomes absent.
C15_FieldsOnTheirOwn ==
  ObjectReply =>
    LET parsed == replies[Len(replies)].doc
    IN /\ ranking.score = (IF parsed.score.t = "number"
                           THEN parsed.score.num ELSE D0_5)
       /\ ranking.priority = (IF parsed.priority.t = "number"
                              THEN parsed.priority.num ELSE Whole(5))
       /\ ranking.sendAfter = (IF parsed.sendAfter.t = "string"
                                  /\ parsed.sendAfter.str # ""
                               THEN parsed.sendAfter ELSE Undefined)

\* C15 witness: the score of the object was no number, its priority and its
\* sendAfter were kept.
C15_OnlyScoreReplaced ==
  /\ ObjectReply
  /\ replies[Len(replies)].doc =
       JsonObject(JStr("high"), JNum(Whole(1)), JStr("2030-01-01T00:00:00Z"))
  /\ ranking = Ranking(D0_5, Whole(1), JStr("2030-01-01T00:00:00Z"))

\* C16: while the scoring of one message waits for a retry, no other
\* message delivered to the handler is still waiting for its scoring call
\* to start.
C16_NoMessageBehindWait ==
  rpc = "wait" => ri = Len(events)

\* C17: without a configured service scoreWithLLM makes no service
\* invocation and no wait and returns what fallbackScore returns for the
\* event.
C17_FallbackWithoutClient ==
  ~genAI =>
    /\ rpc \notin {"call", "wait"}
    /\ replies = <<>>
    /\ waits = <<>>
    /\ Scored => ranking = fallbackScore(events[ri])
    /\ \A i \in DOMAIN priorityQueue :
         priorityQueue[i] = RankedMessage(events[i], fallbackScore(events[i]))

\* C17 witness: the result of an alarming event without a client.
C17_FallbackReturned ==
  /\ ~genAI
  /\ Scored
  /\ replies = <<>>
  /\ events[ri] = Event(<<"Critical">>, <<"Incident">>)
  /\ ranking = Ranking(Whole(1), Whole(1), Undefined)

\* C18: fallbackScore returns sendAfter absent and a (score, priority)
\* fixed by u (the lowercased title and body hold "urgent" or "critical")
\* and i (they hold "error" or "incident"): (0.5, 5), (0.7, 3) for i only,
\* (0.8, 3) for u only, (1, 1) for both.
C18_FallbackTable ==
  (~genAI /\ Scored) =>
    LET words == {LowerWord(events[ri].title[k]) : k \in DOMAIN events[ri].title}
                   \cup {LowerWord(events[ri].body[k]) : k \in DOMAIN events[ri].body}
        u == \E x \in words : Occurs(x) \cap {"urgent", "critical"} # {}
        i == \E x \in words : Occurs(x) \cap {"error", "incident"} # {}
    IN /\ ranking.sendAfter = Undefined
       /\ (~u /\ ~i) => (ranking.score = D0_5 /\ ranking.priority = Whole(5))
       /\ (~u /\ i) => (ranking.score = D0_7 /\ ranking.priority = Whole(3))
       /\ (u /\ ~i) => (ranking.score = D0_8 /\ ranking.priority = Whole(3))
       /\ (u /\ i) => (ranking.score = Whole(1) /\ ranking.priority = Whole(1))
       /\ ~LessThan(ranking.score, Whole(0))
       /\ ~LessThan(Whole(1), ranking.score)
       /\ ranking.priority \in {Whole(1), Whole(3), Whole(5)}
       /\ ranking.priority = Whole(1) => (u /\ i)

\* C18 witness: an urgency keyword in capitals and no incident keyword give
\* 0.5 + 0.3, which is the double 0.8 and not above it: priority 3.
C18_UrgentOnly ==
  /\ ~genAI
  /\ Scored
  /\ events[ri] = Event(<<"URGENT">>, <<"sale">>)
  /\ ranking = Ranking(D0_8, Whole(3), Undefined)

\* C19: an invocation that fails with an error that is not a rejection for
\* rate limit (a text that is no JSON included) is the last of its call:
\* no wait follows it, and the call returns the result of fallbackScore.
C19_NoRetryOnOtherFailure ==
  \A i \in DOMAIN replies :
    (Throws(replies[i]) /\ ClassOf(replies[i]) # "rateLimit") =>
      /\ i = Len(replies)
      /\ Scored
      /\ Len(waits) < i
      /\ ranking = fallbackScore(events[ri])

\* The admit call of worker w decides: the step of lines 67-81.
Decides(w) == pc[w] = "update" /\ pc'[w] # "update"

\* The window the call read is live at the call's now.
ReadLive(w) ==
  state[w].present /\ now[w] - state[w].windowStart <= RATE_LIMIT_WINDOW_MS

C21_KeylessAlwaysAdmitted ==
  /\ [](\A w \in Workers :
          (pc[w] \in {"load", "update", "limited"} \/ att[w].allowed = "deny")
            => Current(w).key # NoKey)
  /\ [][\A w \in Workers :
          (pc[w] = "withinRateLimit" /\ pc'[w] # "withinRateLimit"
             /\ Current(w).key = NoKey) =>
            /\ pc'[w] = "send"
            /\ att'[w].allowed = "admit"
            /\ table' = table
            /\ state' = state
            /\ now' = now
            /\ win' = win
       ]_vars

\* C21 witness: a message without key, delivered again after a failed
\* attempt, is admitted while the window of "user:42" is full.
C21_KeylessAdmittedAtFullWindow ==
  /\ pc["w1"] = "send"
  /\ Current("w1").key = NoKey
  /\ ReceiveCountOf(Current("w1")) > 1
  /\ att["w1"].allowed = "admit"
  /\ table["user:42"].count = RATE_LIMIT_MAX_PER_WINDOW
  /\ win["user:42"].denials > 0

\* The admitted attempts on key k whose provider call is still to come.
Sending(k) ==
  Cardinality({w \in Workers : pc[w] = "send" /\ Current(w).key = k})

\* C22: with sequential attempts the stored count of a key in its window is
\* the number of provider invocations made for the key in that window, the
\* failed ones included: a provider failure leaves the store as it is, and
\* an attempt denied at 30 used slots ends with a normal return, not with an
\* error.
C22_CountIsProviderCalls ==
  /\ [](\A k \in Keys :
          /\ table[k].present => table[k].count = win[k].sends + Sending(k)
          /\ ~table[k].present => win[k].sends = 0)
  /\ [][\A w \in Workers :
          (pc[w] = "send" /\ pc'[w] = "failed") => table' = table]_vars
  /\ [](\A w \in Workers :
          (Quiet(w) /\ att[w].class = "limited") =>
            /\ result[w] = Returned(Len(batch[w]))
            /\ att[w].providerCalls = 0)

\* C22 witness: a message whose provider call failed on the 30th slot of
\* the window is delivered again and ends rate-limited with a normal return.
C22_FailedThenLimited ==
  /\ pc["w1"] = "returned"
  /\ att["w1"].class = "limited"
  /\ ReceiveCountOf(Current("w1")) > 1
  /\ result["w1"].kind = "return"
  /\ table["user:42"].count = RATE_LIMIT_MAX_PER_WINDOW
  /\ win["user:42"].sends = RATE_LIMIT_MAX_PER_WINDOW

\* C23: without a preferences table name the guard reads no state and
\* persists none, and every admit call for a message with a rateLimitKey is
\* admitted, the 31st and every later call of a 60-second window included.
C23_UnconfiguredStoreAdmitsAll ==
  /\ [](~preferencesTableName =>
          /\ table = [k \in Keys |-> NoItem]
          /\ \A k \in Keys : win[k].denials = 0
          /\ \A w \in Workers :
               /\ pc[w] # "limited"
               /\ att[w].allowed # "deny"
               /\ pc[w] = "update" => state[w] = NoItem)
  /\ [][\A w \in Workers :
          (~preferencesTableName /\ Decides(w)) =>
            /\ pc'[w] = "send"
            /\ att'[w].allowed = "admit"
            /\ table' = table
       ]_vars

\* C23 witness: the 31st admit call for "user:42" at one instant is
\* admitted, and the store holds nothing.
C23_ThirtyFirstAdmitted ==
  /\ ~preferencesTableName
  /\ clock = 0
  /\ AdmittedOn("w1", "user:42")
  /\ win["user:42"].admits = RATE_LIMIT_MAX_PER_WINDOW + 1
  /\ win["user:42"].denials = 0
  /\ table["user:42"] = NoItem

\* The invocation of worker w is inside its loop over the records.
InLoop(w) ==
  pc[w] \in {"sendAfter", "withinRateLimit", "load", "update", "send",
             "limited", "failed"}

\* The fields of the records that tell what was done to them.
Marks(recs) == [i \in DOMAIN recs |-> recs[i].handed]

\* C24: one invocation takes the records of its batch in order and stops at
\* the first record whose provider call raises: the failed attempt is the
\* last of the invocation, no later record gets a sendAfter check, an
\* admission check or a provider call, the increments and sends of the
\* earlier records stay, and the transport delivers the whole batch again,
\* from its first record, already sent records included.
C24_StopsAtFirstFailure ==
  /\ [](\A w \in Workers :
          /\ InLoop(w) => Len(classes[w]) = idx[w] - 1
          /\ \A i \in DOMAIN classes[w] :
               classes[w][i].providerError # "none" =>
                 /\ i = Len(classes[w])
                 /\ i = idx[w]
                 /\ pc[w] \in {"threw", "dead"}
          /\ \A i \in DOMAIN batch[w] :
               (pc[w] \in {"threw", "dead"} /\ i > idx[w]) =>
                 (batch[w][i].handed => ReceiveCountOf(batch[w][i]) > 1))
  /\ [][\A w \in Workers :
          /\ (InLoop(w) /\ InLoop(w)' /\ idx'[w] # idx[w]) =>
               idx'[w] = idx[w] + 1
          /\ (pc[w] = "failed" /\ pc'[w] # "failed") =>
               /\ pc'[w] = "threw"
               /\ table' = table
               /\ batch' = batch
               /\ idx' = idx
          /\ (pc[w] = "threw" /\ pc'[w] = "sendAfter") =>
               /\ idx'[w] = 1
               /\ Len(batch'[w]) = Len(batch[w])
               /\ Marks(batch'[w]) = Marks(batch[w])
               /\ table' = table
               /\ \A i \in DOMAIN batch[w] :
                    /\ batch'[w][i].key = batch[w][i].key
                    /\ ReceiveCountOf(batch'[w][i])
                         = ReceiveCountOf(batch[w][i]) + 1
       ]_vars

\* C24 witness: the first record of a batch, sent in the invocation that
\* failed at the second record, is admitted again in the next delivery of
\* the batch and stands before its second provider call.
C24_SentTwice ==
  /\ pc["w1"] = "send"
  /\ idx["w1"] = 1
  /\ Len(batch["w1"]) = 2
  /\ Current("w1").key = "user:42"
  /\ Current("w1").handed
  /\ ReceiveCountOf(Current("w1")) = 2
  /\ batch["w1"][2].key = NoKey
  /\ batch["w1"][2].handed
  /\ win["user:42"].sends = 1
  /\ table["user:42"].count = 2

====
